---- MODULE Spec2Model ----
(***************************************************************************)
(* littlewolf (src/main.c): a grid ray caster.  The model covers the       *)
(* vector helpers, tile lookup, cast, project, pcast, spin, move, render   *)
(* and the frame loop of main.                                             *)
(*                                                                         *)
(* Numbers.  The program computes in IEEE-754 binary32.  The model         *)
(* computes in a binary floating-point format of the same kind with a      *)
(* shorter significand: Prec bits, gradual underflow below 1.0 (where the  *)
(* spacing is 2^-Prec), round to nearest, ties to even, one rounding per   *)
(* operation.  A float f is held as the integer f * 2^Prec, so 1.0f is S.  *)
(* Magnitudes of INF units and beyond are the infinities (x / 0.0f in      *)
(* slope and sv).  A conversion to int truncates toward zero.              *)
(***************************************************************************)
EXTENDS Integers, Sequences, FiniteSets

VARIABLES
    map,     \* const Map map = build()                       (main.c:453)
    hero,    \* Hero hero                                      (main.c:454)
    key,     \* SDL's keyboard state: the scancodes held down  (main.c:457)
    loop,    \* main's frame loop, and the last call of move
    frame,   \* render: the locked display, the column cursor, the last column
    ray      \* cast: the recursion's origin and direction, and its result

vars == << map, hero, key, loop, frame, ray >>

(***************************************************************************)
(* Bounds of the model.                                                    *)
(***************************************************************************)
MaxFrames == 9      \* iterations of main's loop from the spawn state
MaxEvents == 2      \* key press and release events
MaxCalls == 1       \* iterations of main's loop from a drawn hero state
MaxDepth == 60      \* recursion depth of cast explored

(***************************************************************************)
(* float                                                                   *)
(***************************************************************************)
Prec == 12
S == 2^Prec
INF == 2^30

Abs(a) == IF a < 0 THEN -a ELSE a
Sgn(a) == IF a < 0 THEN -1 ELSE IF a > 0 THEN 1 ELSE 0
IsInf(a) == Abs(a) >= INF

\* the number of bits of n, 0 <= n < 2^31 (a decision tree on the powers of 2)
BitLen(n) ==
    IF n < 2^15
    THEN IF n < 2^7
       THEN IF n < 2^3
          THEN IF n < 2^1
             THEN IF n < 2^0
                THEN 0
                ELSE 1
             ELSE IF n < 2^2
                THEN 2
                ELSE 3
          ELSE IF n < 2^5
             THEN IF n < 2^4
                THEN 4
                ELSE 5
             ELSE IF n < 2^6
                THEN 6
                ELSE 7
       ELSE IF n < 2^11
          THEN IF n < 2^9
             THEN IF n < 2^8
                THEN 8
                ELSE 9
             ELSE IF n < 2^10
                THEN 10
                ELSE 11
          ELSE IF n < 2^13
             THEN IF n < 2^12
                THEN 12
                ELSE 13
             ELSE IF n < 2^14
                THEN 14
                ELSE 15
    ELSE IF n < 2^23
       THEN IF n < 2^19
          THEN IF n < 2^17
             THEN IF n < 2^16
                THEN 16
                ELSE 17
             ELSE IF n < 2^18
                THEN 18
                ELSE 19
          ELSE IF n < 2^21
             THEN IF n < 2^20
                THEN 20
                ELSE 21
             ELSE IF n < 2^22
                THEN 22
                ELSE 23
       ELSE IF n < 2^27
          THEN IF n < 2^25
             THEN IF n < 2^24
                THEN 24
                ELSE 25
             ELSE IF n < 2^26
                THEN 26
                ELSE 27
          ELSE IF n < 2^29
             THEN IF n < 2^28
                THEN 28
                ELSE 29
             ELSE IF n < 2^30
                THEN 30
                ELSE 31

\* the exponent of the spacing of the floats around n >= 0 units:
\* 0 below 2^Prec units, and the bits of n beyond Prec above
QE(n) == IF n < S THEN 0 ELSE BitLen(n) - Prec

\* num / den (num >= 0, den > 0) rounded to the nearest integer, ties to even
RoundDiv(num, den) ==
    LET q == num \div den
        r == num % den
    IN  IF 2 * r > den \/ (2 * r = den /\ q % 2 = 1) THEN q + 1 ELSE q

Max(a, b) == IF a > b THEN a ELSE b

\* a units (a >= 0) rounded to a multiple of q, the spacing around a
RndTo(a, q) == RoundDiv(a, q) * q
\* the float nearest the exact value of n units
Rnd(n) ==
    IF Abs(n) < S THEN n
    ELSE IF Abs(n) >= INF THEN Sgn(n) * INF
    ELSE Sgn(n) * RndTo(Abs(n), 2^QE(Abs(n)))

\* m / 2^s units (m > 0, s > 0) rounded to a multiple of 2^qe
ScaleDown(m, s, qe) ==
    IF s + qe > 30 THEN 0 ELSE RoundDiv(m, 2^(s + qe)) * 2^qe
\* the exact value m * 2^t units (m >= 0), rounded once
Scale(m, t) ==
    IF m = 0 THEN 0
    ELSE IF t >= 0
    THEN IF BitLen(m) + t > 30 THEN INF ELSE Rnd(m * 2^t)
    ELSE ScaleDown(m, -t, Max(QE(m) + t, 0))

\* a + b and a - b
FAdd(a, b) ==
    IF IsInf(a) THEN Sgn(a) * INF
    ELSE IF IsInf(b) THEN Sgn(b) * INF
    ELSE Rnd(a + b)
FSub(a, b) == FAdd(a, -b)

\* the product of the magnitudes a and b, of spacing exponents ea and eb
MulMag(a, b, ea, eb) ==
    Scale((a \div 2^ea) * (b \div 2^eb), ea + eb - Prec)
\* a * b
FMul(a, b) ==
    IF a = 0 \/ b = 0 THEN 0
    ELSE IF IsInf(a) \/ IsInf(b) THEN Sgn(a) * Sgn(b) * INF
    ELSE Sgn(a) * Sgn(b) * MulMag(Abs(a), Abs(b), QE(Abs(a)), QE(Abs(b)))

\* ma * 2^u / mb rounded to an integer, times 2^qe
DivRound(ma, mb, u, qe) ==
    IF u >= 0 THEN RoundDiv(ma * 2^u, mb) * 2^qe
    ELSE IF -u > Prec + 2 THEN 0
    ELSE RoundDiv(ma, mb * 2^(-u)) * 2^qe
\* the quotient (ma / mb) * 2^t units, of `bits` bits, rounded once
DivBits(ma, mb, t, bits) ==
    IF bits > 30 THEN INF
    ELSE DivRound(ma, mb, t - Max(bits - Prec, 0), Max(bits - Prec, 0))
\* the quotient of the significands ma and mb, times 2^t units
DivSig(ma, mb, t) ==
    DivBits(ma, mb, t, BitLen((ma * 2^(Prec + 1)) \div mb) + t - (Prec + 1))
\* the quotient of the magnitudes a and b, of spacing exponents ea and eb
DivMag(a, b, ea, eb) ==
    DivSig(a \div 2^ea, b \div 2^eb, ea - eb + Prec)
\* a / b; x / 0.0f is the infinity of x's sign, x / inf is 0
FDiv(a, b) ==
    IF b = 0 THEN Sgn(a) * INF
    ELSE IF IsInf(b) \/ a = 0 THEN 0
    ELSE IF IsInf(a) THEN Sgn(a) * Sgn(b) * INF
    ELSE Sgn(a) * Sgn(b) * DivMag(Abs(a), Abs(b), QE(Abs(a)), QE(Abs(b)))

\* (int) x: truncation toward zero
ToInt(x) == Sgn(x) * (Abs(x) \div S)
\* (float) n of an int n
ToFloat(n) == Rnd(n * S)
\* the float of the decimal literal n / d
Lit(n, d) == FDiv(ToFloat(n), ToFloat(d))

RECURSIVE Newton(_, _)
\* Newton's iteration for the integer square root of n, from r > sqrt(n)
Newton(n, r) ==
    IF (r + n \div r) \div 2 >= r THEN r ELSE Newton(n, (r + n \div r) \div 2)
\* the largest r with r * r <= n
Root(n) == IF n = 0 THEN 0 ELSE Newton(n, 2^((BitLen(n) + 1) \div 2))

\* sqrtf(x * x + y * y).  binary32 forms the squares of the magnitudes the
\* program meets without underflow, which units of 2^-Prec would not: the
\* sum of squares is formed exactly (of the leading 15 bits of x and y) and
\* the root is rounded once.
RootSum(x, y, k) ==
    Scale(Root((x \div 2^k) * (x \div 2^k) + (y \div 2^k) * (y \div 2^k)), k)
hypot(x, y) ==
    IF IsInf(x) \/ IsInf(y) THEN INF
    ELSE RootSum(Abs(x), Abs(y), Max(BitLen(Max(Abs(x), Abs(y))) - 15, 0))

RECURSIVE Series(_, _, _)
\* the power series of cosf / sinf from the term of index n on, terms in 2^-16
Series(t, term, n) ==
    IF term = 0 THEN 0
    ELSE term + Series(t, -Sgn(term) * RoundDiv(RoundDiv(Abs(term) * Abs(t), S) * Abs(t),
                                               S * (n + 1) * (n + 2)), n + 2)
\* a sum of terms in 2^-16 as a float
Sum(v) == Sgn(v) * RoundDiv(Abs(v), 2^(16 - Prec))
cosf(t) == Sum(Series(t, 2^16, 0))
sinf(t) == Sum(Series(t, t * 2^(16 - Prec), 1))

(***************************************************************************)
(* Vector math (main.c:71-134, 162-166, 201-212)                           *)
(***************************************************************************)
\* the float literals of the program
Half == Lit(1, 2)               \* 0.5f
Two == ToFloat(2)               \* 2.0f
Tenth == Lit(1, 10)             \* 0.1f, 0.10f
Hundredth == Lit(1, 100)        \* 0.01f, 1e-2f
Thousandth == Lit(1, 1000)      \* 1e-3f

Pt(x, y) == [x |-> x, y |-> y]
Ln(a, b) == [a |-> a, b |-> b]

\* a turned by the angle of cosine c and sine s
turned(a, c, s) ==
    Pt(FSub(FMul(a.x, c), FMul(a.y, s)), FAdd(FMul(a.x, s), FMul(a.y, c)))
turn(a, t) == turned(a, cosf(t), sinf(t))
rag(a) == Pt(-a.y, a.x)
sub(a, b) == Pt(FSub(a.x, b.x), FSub(a.y, b.y))
add(a, b) == Pt(FAdd(a.x, b.x), FAdd(a.y, b.y))
mul(a, n) == Pt(FMul(a.x, n), FMul(a.y, n))
mag(a) == hypot(a.x, a.y)
unit(a) == mul(a, FDiv(S, mag(a)))
slope(a) == FDiv(a.y, a.x)
fl(x) == ToInt(x) - (IF x < ToFloat(ToInt(x)) THEN 1 ELSE 0)
cl(x) == ToInt(x) + (IF x > ToFloat(ToInt(x)) THEN 1 ELSE 0)
dec(x) == FSub(x, ToFloat(ToInt(x)))
rotate(l, t) == Ln(turn(l.a, t), turn(l.b, t))
lerp(l, n) == add(l.a, mul(sub(l.b, l.a), n))

(***************************************************************************)
(* The map (main.c:414-445).  A row is the tuple of its characters' digit  *)
(* values: row y, column x of a C array is grid[y + 1][x + 1].             *)
(***************************************************************************)
ceiling ==
  << <<1,1,1,1,1,1,1,1,1,1,1,1,1,1,1,1,1,1,1,1,1,1,1,1,1,1,1,1,1,1,1,1,1,1,1,1,1,1,1,1,1,1,1,1,1>>,
     <<1,2,2,2,2,3,2,2,3,2,3,2,2,3,2,1,1,1,1,1,1,1,1,1,1,1,1,1,1,1,2,2,2,2,3,2,2,3,2,3,2,2,3,2,1>>,
     <<1,2,2,2,2,2,2,2,1,1,1,1,2,3,2,1,1,1,1,1,1,1,1,1,1,1,1,1,1,1,2,2,2,2,2,2,2,1,1,1,1,2,3,2,1>>,
     <<1,2,2,2,2,1,2,2,1,2,3,2,3,2,3,2,3,2,3,2,3,2,3,2,3,2,3,2,3,2,2,2,2,2,1,2,2,1,2,3,2,3,2,3,1>>,
     <<1,2,2,2,2,2,2,2,1,1,1,1,2,3,2,1,1,1,1,1,1,1,1,1,1,1,1,1,1,1,2,2,2,2,2,2,2,1,1,1,1,2,3,2,1>>,
     <<1,2,2,2,2,3,2,2,3,2,3,2,2,3,2,1,1,1,1,1,1,1,1,1,1,1,1,1,1,1,2,2,2,2,3,2,2,3,2,3,2,2,3,2,1>>,
     <<1,1,1,1,1,1,1,1,1,1,1,1,1,1,1,1,1,1,1,1,1,1,1,1,1,1,1,1,1,1,1,1,1,1,1,1,1,1,1,1,1,1,1,1,1>> >>
\* walling with the border open at the east end of the corridor
wallingOpen ==
  << <<1,1,1,1,1,1,1,1,1,1,1,1,1,1,1,1,1,1,1,1,1,1,1,1,1,1,1,1,1,1,1,1,1,1,1,1,1,1,1,1,1,1,1,1,1>>,
     <<1,0,0,0,0,0,0,0,0,0,0,0,0,0,0,1,1,1,1,1,1,1,1,1,1,1,1,1,1,1,0,0,0,0,0,0,0,0,0,0,0,0,0,0,1>>,
     <<1,0,3,3,3,0,0,0,1,1,1,1,0,0,0,1,1,1,1,1,1,1,1,1,1,1,1,1,1,1,0,3,3,3,0,0,0,1,1,1,1,0,0,0,1>>,
     <<1,0,3,0,0,0,0,0,0,0,0,0,0,0,0,0,0,0,0,0,0,0,0,0,0,0,0,0,0,0,0,3,0,0,0,0,0,3,0,0,0,0,0,0,0>>,
     <<1,0,3,3,3,0,0,0,1,1,1,1,0,0,0,1,1,1,1,1,1,1,1,1,1,1,1,1,1,1,0,3,3,3,0,0,0,1,1,1,1,0,0,0,1>>,
     <<1,0,0,0,0,0,0,0,0,0,0,0,0,0,0,1,1,1,1,1,1,1,1,1,1,1,1,1,1,1,0,0,0,0,0,0,0,0,0,0,0,0,0,0,1>>,
     <<1,1,1,1,1,1,1,1,1,1,1,1,1,1,1,1,1,1,1,1,1,1,1,1,1,1,1,1,1,1,1,1,1,1,1,1,1,1,1,1,1,1,1,1,1>> >>
walling ==
  << <<1,1,1,1,1,1,1,1,1,1,1,1,1,1,1,1,1,1,1,1,1,1,1,1,1,1,1,1,1,1,1,1,1,1,1,1,1,1,1,1,1,1,1,1,1>>,
     <<1,0,0,0,0,0,0,0,0,0,0,0,0,0,0,1,1,1,1,1,1,1,1,1,1,1,1,1,1,1,0,0,0,0,0,0,0,0,0,0,0,0,0,0,1>>,
     <<1,0,3,3,3,0,0,0,1,1,1,1,0,0,0,1,1,1,1,1,1,1,1,1,1,1,1,1,1,1,0,3,3,3,0,0,0,1,1,1,1,0,0,0,1>>,
     <<1,0,3,0,0,0,0,0,0,0,0,0,0,0,0,0,0,0,0,0,0,0,0,0,0,0,0,0,0,0,0,3,0,0,0,0,0,3,0,0,0,0,0,0,1>>,
     <<1,0,3,3,3,0,0,0,1,1,1,1,0,0,0,1,1,1,1,1,1,1,1,1,1,1,1,1,1,1,0,3,3,3,0,0,0,1,1,1,1,0,0,0,1>>,
     <<1,0,0,0,0,0,0,0,0,0,0,0,0,0,0,1,1,1,1,1,1,1,1,1,1,1,1,1,1,1,0,0,0,0,0,0,0,0,0,0,0,0,0,0,1>>,
     <<1,1,1,1,1,1,1,1,1,1,1,1,1,1,1,1,1,1,1,1,1,1,1,1,1,1,1,1,1,1,1,1,1,1,1,1,1,1,1,1,1,1,1,1,1>> >>
floring ==
  << <<1,1,1,1,1,1,1,1,1,1,1,1,1,1,1,1,1,1,1,1,1,1,1,1,1,1,1,1,1,1,1,1,1,1,1,1,1,1,1,1,1,1,1,1,1>>,
     <<1,2,2,2,2,3,2,2,3,2,3,2,2,3,2,1,1,1,1,1,1,1,1,1,1,1,1,1,1,1,2,2,2,2,3,2,2,3,2,3,2,2,3,2,1>>,
     <<1,2,2,2,2,2,2,2,1,1,1,1,2,3,2,1,1,1,1,1,1,1,1,1,1,1,1,1,1,1,2,2,2,2,2,2,2,1,1,1,1,2,3,2,1>>,
     <<1,2,2,2,2,2,2,2,1,2,3,2,3,2,3,3,2,3,2,3,2,3,2,3,2,3,2,3,2,3,2,2,2,2,2,2,2,1,2,3,2,3,2,3,1>>,
     <<1,2,2,2,2,2,2,2,1,1,1,1,2,3,2,1,1,1,1,1,1,1,1,1,1,1,1,1,1,1,2,2,2,2,2,2,2,1,1,1,1,2,3,2,1>>,
     <<1,2,2,2,2,3,2,2,3,2,3,2,2,3,2,1,1,1,1,1,1,1,1,1,1,1,1,1,1,1,2,2,2,2,3,2,2,3,2,3,2,2,3,2,1>>,
     <<1,1,1,1,1,1,1,1,1,1,1,1,1,1,1,1,1,1,1,1,1,1,1,1,1,1,1,1,1,1,1,1,1,1,1,1,1,1,1,1,1,1,1,1,1>> >>

build == [ceiling |-> ceiling, walling |-> walling, floring |-> floring]

\* tiles[y][x] names a character of the grid
InGrid(a, tiles) ==
    /\ ToInt(a.y) \in 0 .. Len(tiles) - 1
    /\ ToInt(a.x) \in 0 .. Len(tiles[ToInt(a.y) + 1]) - 1

\* What a read outside the grid may return: the row's terminating NUL
\* ('\0' - '0'), or whatever lies beyond it, an empty or a solid tile.
NUL == -48
Stray == {NUL, 0, 1}

\* tile(a, tiles): the values the read tiles[y][x] - '0' may produce
tile(a, tiles) ==
    IF InGrid(a, tiles) THEN {tiles[ToInt(a.y) + 1][ToInt(a.x) + 1]} ELSE Stray

(***************************************************************************)
(* The ray caster (main.c:136-192)                                         *)
(***************************************************************************)
\* the point of the line through a of direction b at the abscissa x
shAt(a, b, x) == Pt(x, FAdd(FMul(slope(b), FSub(x, a.x)), a.y))
\* sh without the snap to the grid line: one unit along x
shFree(a, b) ==
    shAt(a, b, IF b.x > 0 THEN FAdd(a.x, S) ELSE FSub(a.x, S))
sh(a, b) ==
    shAt(a, b, ToFloat(IF b.x > 0 THEN fl(FAdd(a.x, S)) ELSE cl(FSub(a.x, S))))

\* the point of the line through a of direction b at the ordinate y
svAt(a, b, y) == Pt(FAdd(FDiv(FSub(y, a.y), slope(b)), a.x), y)
sv(a, b) ==
    svAt(a, b, ToFloat(IF b.y > 0 THEN fl(FAdd(a.y, S)) ELSE cl(FSub(a.y, S))))

\* main.c:179-189: the point `to` stepped to and the point sampled, the
\* nudge dc = mul(direction, 0.01f) applied in both, or in one, coordinate
nudge(to, hor, ver, dc) ==
    [ray |-> to,
     test |-> add(to, IF mag(sub(hor, ver)) < Thousandth THEN dc
                      ELSE IF dec(to.x) = 0 THEN Pt(dc.x, 0)
                      ELSE Pt(0, dc.y))]
\* main.c:172-174: the nearer of the two intersections
nearer(where, hor, ver, dc) ==
    nudge(IF mag(sub(hor, where)) < mag(sub(ver, where)) THEN hor ELSE ver,
          hor, ver, dc)
\* One level of cast, up to the read of the tile: the point stepped to and
\* the point sampled (main.c:172-188).
step(where, direction) ==
    nearer(where, sh(where, direction), sv(where, direction),
           mul(direction, Hundredth))

\* the read tile(a, tiles) of cast evaluated as a function: NUL outside
sample(a, tiles) ==
    IF InGrid(a, tiles) THEN tiles[ToInt(a.y) + 1][ToInt(a.x) + 1] ELSE NUL

RECURSIVE castFrom(_, _, _, _)
\* main.c:189-191 after the step s: return the hit or recurse
castOn(s, direction, tiles, depth) ==
    IF sample(s.test, tiles) # 0 \/ depth >= MaxDepth
    THEN [tile |-> sample(s.test, tiles), where |-> s.ray, depth |-> depth,
          inside |-> InGrid(s.test, tiles)]
    ELSE castFrom(s.ray, direction, tiles, depth + 1)
\* cast at recursion depth `depth`.  A sample outside the grid ends the
\* evaluation as a read of NUL does (inside is FALSE); depth MaxDepth ends
\* it with tile 0.
castFrom(where, direction, tiles, depth) ==
    castOn(step(where, direction), direction, tiles, depth)
cast(where, direction, tiles) == castFrom(where, direction, tiles, 0)

\* pcast with the row taken for the row below it
pcastOff(size, yres, y) == FDiv(size, ToFloat(2 * y - yres))
pcast(size, yres, y) == FDiv(size, ToFloat(2 * (y + 1) - yres))

(***************************************************************************)
(* The projector (main.c:330-341)                                          *)
(***************************************************************************)
\* clamped without the clamp of bot
clampedTop(top, bot, yres, size) ==
    [top |-> IF top > yres THEN yres ELSE top, bot |-> bot, size |-> size]
\* clamped without the clamp of top
clampedBot(top, bot, yres, size) ==
    [top |-> top, bot |-> IF bot < 0 THEN 0 ELSE bot, size |-> size]
\* main.c:339: the clamps and the Wall returned
clamped(top, bot, yres, size) ==
    [top |-> IF top > yres THEN yres ELSE top,
     bot |-> IF bot < 0 THEN 0 ELSE bot,
     size |-> size]
\* main.c:335-336: the wall of height `size` centred in yres rows
centred(yres, size) ==
    clamped(ToInt(FDiv(FAdd(ToFloat(yres), size), Two)),
            ToInt(FDiv(FSub(ToFloat(yres), size), Two)), yres, size)
project(xres, yres, focal, corrected) ==
    centred(yres, FDiv(FMul(FMul(Half, focal), ToFloat(xres)),
                       IF corrected.x < Hundredth THEN Hundredth ELSE corrected.x))

(***************************************************************************)
(* The hero (main.c:279-315, 385-411)                                      *)
(***************************************************************************)
Scancodes == {"W", "A", "S", "D", "H", "L"}
zero == Pt(0, 0)

viewport(focal) == Ln(Pt(focal, -S), Pt(focal, S))

born(focal) ==
    [fov |-> viewport(focal),
     where |-> Pt(Lit(35, 10), Lit(35, 10)),
     velocity |-> zero,
     speed |-> Tenth,
     acceleration |-> Lit(15, 1000),
     theta |-> 0]

\* main.c:282-283
spinH(h, k) == IF "H" \in k THEN [h EXCEPT !.theta = FSub(h.theta, Tenth)] ELSE h
spinL(h, k) == IF "L" \in k THEN [h EXCEPT !.theta = FAdd(h.theta, Tenth)] ELSE h
spin(h, k) == spinL(spinH(h, k), k)

\* main.c:297-300: the velocity v after the keys held, one by one
keyW(v, acceleration, k) == IF "W" \in k THEN add(v, acceleration) ELSE v
keyS(v, acceleration, k) == IF "S" \in k THEN sub(v, acceleration) ELSE v
keyD(v, acceleration, k) == IF "D" \in k THEN add(v, rag(acceleration)) ELSE v
keyA(v, acceleration, k) == IF "A" \in k THEN sub(v, rag(acceleration)) ELSE v
accelerate(v, acceleration, k) ==
    keyA(keyD(keyS(keyW(v, acceleration, k), acceleration, k), acceleration, k),
         acceleration, k)
\* decay with the sign of the damping term flipped
decayUp(h) == mul(h.velocity, FAdd(S, FDiv(h.acceleration, h.speed)))
\* main.c:303: the exponential decay
decay(h) == mul(h.velocity, FSub(S, FDiv(h.acceleration, h.speed)))
\* cap that never rescales
capOff(v, speed) == v
\* main.c:305: the cap of the velocity at the top speed
cap(v, speed) == IF mag(v) > speed THEN mul(unit(v), speed) ELSE v
\* hero.velocity after main.c:292-305: acceleration or decay, then the cap
drive(h, k) ==
    cap(IF k \cap {"W", "S", "D", "A"} # {}
        THEN accelerate(h.velocity,
                        mul(turn(Pt(S, 0), h.theta), h.acceleration), k)
        ELSE decay(h),
        h.speed)

\* collide that restores the position and keeps the velocity
collideKeep(h, tiles, v, to) ==
    { IF t # 0
      THEN [h EXCEPT !.velocity = v, !.where = h.where]
      ELSE [h EXCEPT !.velocity = v, !.where = to]
      : t \in tile(to, tiles) }
\* collide that zeroes the velocity and keeps the new position
collideThrough(h, tiles, v, to) ==
    { IF t # 0
      THEN [h EXCEPT !.velocity = zero, !.where = to]
      ELSE [h EXCEPT !.velocity = v, !.where = to]
      : t \in tile(to, tiles) }
\* main.c:307-314: the step to `to` with the velocity v, undone in a wall
collide(h, tiles, v, to) ==
    { IF t # 0
      THEN [h EXCEPT !.velocity = zero, !.where = h.where]
      ELSE [h EXCEPT !.velocity = v, !.where = to]
      : t \in tile(to, tiles) }
advance(h, tiles, v) == collide(h, tiles, v, add(h.where, v))
\* move(hero, walling, key): the heroes the call may return, one for each
\* value the read of the tile at the new position may produce
move(h, tiles, k) == advance(h, tiles, drive(h, k))

(***************************************************************************)
(* main (main.c:447-464): setup, build, born, then the frame loop.         *)
(***************************************************************************)
XRes == 700
YRes == 400
gpu == [xres |-> XRes, yres |-> YRes]
Focal == Lit(8, 10)

FrameIdle == [pc |-> "idle"]
RayIdle == [pc |-> "idle"]
NoCall == [made |-> FALSE]

Spawn == born(Focal)

Init ==
    /\ map = build
    /\ hero = Spawn
    /\ key = {}
    /\ loop = [pc |-> "loop", frames |-> 0, limit |-> MaxFrames, events |-> 0,
               call |-> NoCall]
    /\ frame = FrameIdle
    /\ ray = RayIdle

\* SDL_PollEvent in done() takes a key press or release off the event queue
\* and SDL updates the keyboard state main reads through
\* SDL_GetKeyboardState (main.c:379, 457).
KeyEvent ==
    /\ loop.pc = "loop"
    /\ loop.events < MaxEvents
    /\ \E k \in Scancodes :
          key' = IF k \in key THEN key \ {k} ELSE key \cup {k}
    /\ loop' = [loop EXCEPT !.events = @ + 1]
    /\ UNCHANGED << map, hero, frame, ray >>

\* One iteration of main's loop (main.c:455-461): done() is false, spin,
\* move.  The call of render that ends the iteration is given hero and map
\* by value and writes the display only: its steps are Lock, Column and
\* Unlock below.  loop.call keeps the arguments of the call of move.
Tick ==
    /\ loop.pc = "loop"
    /\ loop.frames < loop.limit
    /\ \E spun \in {spin(hero, key)} :
          /\ hero' \in move(spun, map.walling, key)
          /\ loop' = [loop EXCEPT !.frames = @ + 1,
                                  !.call = [made |-> TRUE, hero |-> spun, key |-> key]]
    /\ UNCHANGED << map, key, frame, ray >>

\* done() is true (main.c:376-383, 455): the loop ends.
Quit ==
    /\ loop.pc = "loop"
    /\ loop' = [loop EXCEPT !.pc = "quit"]
    /\ UNCHANGED << map, hero, key, frame, ray >>

Next == KeyEvent \/ Tick \/ Quit

Spec == Init /\ [][Next]_vars

(***************************************************************************)
(* move as a function of its arguments: one iteration of the loop from a   *)
(* drawn hero and a drawn keyboard state.                                  *)
(***************************************************************************)
\* positions on empty tiles of the wall grid: the spawn point, points beside
\* the '3' block, in the corners of the interior and in the corridor
Wheres ==
    { Spawn.where,
      Pt(Lit(309, 100), Lit(35, 10)),
      Pt(Lit(35, 10), Lit(305, 100)),
      Pt(Lit(102, 100), Lit(102, 100)),
      Pt(Lit(4395, 100), Lit(595, 100)),
      Pt(ToFloat(22), Lit(35, 10)) }
Speeds == {-Lit(3, 10), -Tenth, 0, Lit(5, 100), Tenth}
Thetas == {0, Lit(7, 10), -Lit(15, 10)}

InitMove ==
    /\ map = build
    /\ \E w \in Wheres, vx \in Speeds, vy \in Speeds, t \in Thetas :
          hero = [Spawn EXCEPT !.where = w, !.velocity = Pt(vx, vy), !.theta = t]
    /\ key \in SUBSET Scancodes
    /\ loop = [pc |-> "loop", frames |-> 0, limit |-> MaxCalls, events |-> 0,
               call |-> NoCall]
    /\ frame = FrameIdle
    /\ ray = RayIdle

SpecMove == InitMove /\ [][Tick]_vars

(***************************************************************************)
(* cast, one level of the recursion at a time.                             *)
(***************************************************************************)
\* origins on empty tiles inside the border, some on grid lines
Origins ==
    Wheres \cup
    { Pt(ToFloat(3), ToFloat(3)),
      Pt(ToFloat(1), Lit(15, 10)),
      Pt(Lit(435, 10), Lit(35, 10)),
      Pt(Lit(435, 10), ToFloat(1)) }
\* components of the directions: up to |1.28| as render's are, and to 100
Components == {0, 1, Half, S, Lit(128, 100), ToFloat(50), ToFloat(100)}
Directions ==
    { Pt(sx * x, sy * y) : sx \in {-1, 1}, sy \in {-1, 1},
                           x \in Components, y \in Components } \ {zero}

InitCast ==
    /\ map = build
    /\ hero = Spawn
    /\ key = {}
    /\ loop = [pc |-> "quit", frames |-> 0, limit |-> 0, events |-> 0, call |-> NoCall]
    /\ frame = FrameIdle
    /\ \E o \in Origins, d \in Directions :
          ray = [pc |-> "cast", where |-> o, direction |-> d, depth |-> 0,
                 inside |-> TRUE, origin |-> o]

\* One level of cast (main.c:169-191): step, sample, then return the hit or
\* recurse from the point stepped to.  ray.inside: no sample so far fell
\* outside the grid.
Step ==
    /\ ray.pc = "cast"
    /\ ray.depth < MaxDepth
    /\ \E s \in {step(ray.where, ray.direction)} :
           \E t \in tile(s.test, map.walling) :
              ray' = IF t # 0
                     THEN [pc |-> "hit", where |-> s.ray, direction |-> ray.direction,
                           depth |-> ray.depth, origin |-> ray.origin,
                           inside |-> ray.inside /\ InGrid(s.test, map.walling),
                           tile |-> t]
                     ELSE [ray EXCEPT !.where = s.ray, !.depth = @ + 1,
                                      !.inside = @ /\ InGrid(s.test, map.walling)]
    /\ UNCHANGED << map, hero, key, loop, frame >>

SpecCast == InitCast /\ [][Step]_vars

(***************************************************************************)
(* project as a function of its arguments.                                 *)
(***************************************************************************)
InitProject ==
    /\ map = build
    /\ hero = Spawn
    /\ key = {}
    /\ loop = [pc |-> "quit", frames |-> 0, limit |-> 0, events |-> 0, call |-> NoCall]
    /\ ray = RayIdle
    /\ \E xres \in {1, 320, XRes}, yres \in {1, 2, 399, YRes},
          focal \in {Tenth, Focal, S, Two},
          normal \in {1, Hundredth, Half, S, Two, Lit(195, 100), ToFloat(44),
                      ToFloat(140), ToFloat(1000)} :
          frame = [pc |-> "project", xres |-> xres, yres |-> yres, focal |-> focal,
                   corrected |-> Pt(normal, 0)]

Project ==
    /\ frame.pc = "project"
    /\ frame' = [pc |-> "projected", xres |-> frame.xres, yres |-> frame.yres,
                 focal |-> frame.focal, corrected |-> frame.corrected,
                 wall |-> project(frame.xres, frame.yres, frame.focal, frame.corrected)]
    /\ UNCHANGED << map, hero, key, loop, ray >>

SpecProject == InitProject /\ [][Project]_vars

(***************************************************************************)
(* render (main.c:343-374), one column at a time.  The display is kept as  *)
(* the rows put in the last column, by pass; the colours are not kept.     *)
(***************************************************************************)
RECURSIVE Spun(_, _, _)
\* theta after n frames with the turn key `k` held
Spun(h, k, n) == IF n = 0 THEN h ELSE Spun(spin(h, {k}), k, n - 1)

Poses ==
    { Spun([Spawn EXCEPT !.where = w], k[1], k[2]) :
        w \in { Spawn.where, Pt(Lit(309, 100), Lit(35, 10)),
                Pt(Lit(4395, 100), Lit(595, 100)), Pt(ToFloat(22), Lit(35, 10)) },
        k \in { <<"L", 0>>, <<"L", 7>>, <<"H", 15>> } }

InitRender ==
    /\ map = build
    /\ hero \in Poses
    /\ key = {}
    /\ loop = [pc |-> "loop", frames |-> 1, limit |-> 1, events |-> 0, call |-> NoCall]
    /\ ray = RayIdle
    /\ frame = [pc |-> "render"]

\* main.c:347-348: rotate the field of view, lock the display
Lock ==
    /\ frame.pc = "render"
    /\ frame' = [pc |-> "columns", locked |-> TRUE, x |-> 0,
                 camera |-> rotate(hero.fov, hero.theta), col |-> [x |-> -1]]
    /\ UNCHANGED << map, hero, key, loop, ray >>

\* One iteration of the loop over the columns (main.c:350-367).  A put is
\* display.pixels[y + x * display.width] = pixel.
Column ==
    /\ frame.pc = "columns"
    /\ frame.x < gpu.xres
    /\ \E x \in {frame.x} :
       \E direction \in {lerp(frame.camera, FDiv(ToFloat(x), ToFloat(gpu.xres)))} :
       \E hit \in {cast(hero.where, direction, map.walling)} :
       \E trace \in {Ln(hero.where, hit.where)} :
       \E corrected \in {turn(sub(trace.b, trace.a), -hero.theta)} :
       \E wall \in {project(gpu.xres, gpu.yres, hero.fov.a.x, corrected)} :
          frame' = [frame EXCEPT
                      !.x = x + 1,
                      !.col = [x |-> x, direction |-> direction, hit |-> hit,
                               trace |-> trace, wall |-> wall,
                               locked |-> frame.locked,
                               flooring |-> 0 .. wall.bot - 1,
                               walled |-> wall.bot .. wall.top - 1,
                               ceiled |-> wall.top .. gpu.yres - 1]]
    /\ UNCHANGED << map, hero, key, loop, ray >>

\* main.c:368-369: unlock and present
Unlock ==
    /\ frame.pc = "columns"
    /\ frame.x >= gpu.xres
    /\ frame' = [frame EXCEPT !.pc = "presented", !.locked = FALSE]
    /\ UNCHANGED << map, hero, key, loop, ray >>

NextRender == Lock \/ Column \/ Unlock

SpecRender == InitRender /\ [][NextRender]_vars

(***************************************************************************)
(* Properties.  loop.call holds the hero and the keys given to the last    *)
(* call of move, hero its result.                                          *)
(***************************************************************************)
Called == loop.call.made
Before == loop.call.hero
Held == loop.call.key
\* the velocity after acceleration or decay and the cap, and the position
\* it leads to
Driven == drive(Before, Held)
Tentative == add(Before.where, Driven)
Blocked == InGrid(Tentative, map.walling) /\ sample(Tentative, map.walling) # 0
Free == InGrid(Tentative, map.walling) /\ sample(Tentative, map.walling) = 0
\* the square of the magnitude of v, in units squared
Sq(v) == v.x * v.x + v.y * v.y

\* C1: after a call of move, if the tentative position is on a non-empty
\* tile of the wall grid the hero is at the position it had before the call
\* with velocity (0, 0); if it is on an empty tile the hero is at the
\* tentative position with the velocity that led there.
C1_CollisionAtomic ==
    Called =>
        /\ Blocked => hero.where = Before.where /\ hero.velocity = zero
        /\ Free => hero.where = Tentative /\ hero.velocity = Driven
C1_Witness ==
    /\ Called
    /\ Blocked
    /\ Before.velocity # zero
    /\ hero.where = Before.where
    /\ hero.velocity = zero

\* the tolerance of the speed cap: 1e-3
Eps == Thousandth
\* C4: after a call of move, whatever the keys and the velocity before, the
\* magnitude of the hero's velocity is at most speed + Eps.
C4_SpeedCap ==
    Called => Sq(hero.velocity) <= (hero.speed + Eps) * (hero.speed + Eps)
\* a velocity above the top speed went in and the capped velocity was kept
C4_Witness ==
    /\ Called
    /\ Sq(Before.velocity) > Before.speed * Before.speed
    /\ Free
    /\ hero.velocity # zero
    /\ Sq(hero.velocity) <= (hero.speed + Eps) * (hero.speed + Eps)

\* no movement key was held in the last call of move
Coasting == Held \cap {"W", "A", "S", "D"} = {}
\* C8: in a tick with no movement key held the magnitude of the velocity
\* does not increase: the velocity is multiplied by 1 - acceleration / speed
\* or zeroed by a collision; from velocity (0, 0) it stays (0, 0) and the
\* position does not change.
C8_DecayMonotone ==
    Called /\ Coasting =>
        /\ Sq(hero.velocity) <= Sq(Before.velocity)
        /\ hero.velocity \in {decay(Before), zero}
        /\ Before.velocity = zero =>
              hero.velocity = zero /\ hero.where = Before.where
\* a tick without movement keys that made a non-zero velocity smaller
C8_Witness ==
    /\ Called
    /\ Coasting
    /\ hero.velocity # zero
    /\ Sq(hero.velocity) < Sq(Before.velocity)

\* C9: from the spawn state, whatever the keys, the hero's position is
\* inside the wall grid on an empty tile, and the tick that would enter a
\* non-empty tile leaves the position unchanged and zeroes the velocity.
C9_NeverInWall ==
    /\ InGrid(hero.where, map.walling)
    /\ sample(hero.where, map.walling) = 0
    /\ Called /\ ~Free => hero.where = Before.where /\ hero.velocity = zero
\* the hero ran into a wall: the tick was undone
C9_Witness ==
    /\ loop.frames > 1
    /\ Called
    /\ Blocked
    /\ Sq(Before.velocity) > 0
    /\ hero.velocity = zero
    /\ sample(hero.where, map.walling) = 0

\* directions whose nudge, 0.01 of the direction, is at most half a tile
Small(d) == Abs(d.x) <= ToFloat(50) /\ Abs(d.y) <= ToFloat(50)
\* cast has returned
Returned == ray.pc = "hit"
\* the longest walk of a ray through the grid: its columns and its rows
Walk == Len(map.walling[1]) + Len(map.walling)
\* cast up to here: no sample outside the grid, a tile above 0 returned,
\* and no more levels of recursion than the grid has lines to cross
CastSound ==
    /\ ray.inside
    /\ Returned => ray.tile > 0
    /\ ray.depth <= Walk

\* C2 as stated: for every non-zero direction and every origin on an empty
\* tile inside the border, cast returns after finitely many steps a tile
\* above 0 and never samples outside the grid.
C2_AnyDirection == ray.pc # "idle" => CastSound
\* C2: the same for the non-zero directions whose components are at most
\* 50 in magnitude.
C2_CastTerminates == ray.pc # "idle" /\ Small(ray.direction) => CastSound
\* a ray that crossed several tiles before it hit a wall
C2_Witness ==
    /\ Returned
    /\ Small(ray.direction)
    /\ ray.depth > 2
    /\ ray.tile > 0
    /\ ray.inside

\* x is within 1e-3 of an integer
Integral(x) ==
    Abs(dec(x)) <= Thousandth \/ Abs(dec(x)) >= FSub(S, Thousandth)
\* C7: the point cast steps to at every level of the recursion, and the
\* point it returns, has an integral x or an integral y (within 1e-3).
C7_HitOnGridLine ==
    Returned \/ (ray.pc = "cast" /\ ray.depth > 0) =>
        Integral(ray.where.x) \/ Integral(ray.where.y)
\* a hit on a vertical grid line, off the horizontal ones, below the top level
C7_Witness ==
    /\ Returned
    /\ ray.depth > 0
    /\ dec(ray.where.x) = 0
    /\ ~Integral(ray.where.y)

\* project has returned
Projected == frame.pc = "projected"
\* C3 as stated: 0 <= top <= bot <= yres.
C3_TopBelowBot ==
    Projected =>
        0 <= frame.wall.top /\ frame.wall.top <= frame.wall.bot
                            /\ frame.wall.bot <= frame.yres
\* C3: the Wall of project has 0 <= bot <= top <= yres (top is the larger
\* row), for corrected.x > 0, xres > 0, yres > 0 and focal > 0.
C3_BotBelowTop ==
    Projected =>
        0 <= frame.wall.bot /\ frame.wall.bot <= frame.wall.top
                            /\ frame.wall.top <= frame.yres
\* a wall taller than the screen, clamped at both ends
C3_Witness ==
    /\ Projected
    /\ frame.wall.size > ToFloat(frame.yres)
    /\ frame.wall.bot = 0
    /\ frame.wall.top = frame.yres
    /\ frame.yres > 1

\* render has drawn a column: the last one is frame.col
Drawn == frame.pc \in {"columns", "presented"} /\ frame.col.x >= 0
Rows == 0 .. gpu.yres - 1
\* C5: every column 0 .. xres - 1 is drawn in turn while the display is
\* locked, the rows put by the three passes of a column are the rows
\* 0 .. yres - 1, all of them and no other, and the display is unlocked
\* after the last column only.
C5_EveryPixel ==
    /\ Drawn =>
          /\ frame.col.locked
          /\ frame.col.x \in 0 .. gpu.xres - 1
          /\ frame.col.x = frame.x - 1
          /\ frame.col.flooring \cup frame.col.walled \cup frame.col.ceiled = Rows
    /\ frame.pc = "columns" => frame.locked
    /\ frame.pc = "presented" => ~frame.locked /\ frame.x = gpu.xres
\* a column past the middle of the screen drawn with rows of all three passes
C5_Witness ==
    /\ Drawn
    /\ frame.col.locked
    /\ 2 * frame.col.x > gpu.xres
    /\ frame.col.flooring # {}
    /\ frame.col.walled # {}
    /\ frame.col.ceiled # {}

\* the fractions render passes to lerp for row y of the last column
FloorFraction(y) == -pcast(frame.col.wall.size, gpu.yres, y)
CeilingFraction(y) == pcast(frame.col.wall.size, gpu.yres, y)
\* the pcast denominators of the rows of the floor and ceiling passes are
\* not 0 and the fractions are above 0
Forward ==
    /\ \A y \in frame.col.flooring \cup frame.col.ceiled :
          2 * (y + 1) - gpu.yres # 0
    /\ \A y \in frame.col.flooring : FloorFraction(y) > 0
    /\ \A y \in frame.col.ceiled : CeilingFraction(y) > 0
\* the spacing of the floats around yres
Ulp == 2^QE(ToFloat(gpu.yres))
\* C10 as stated: the denominators are not 0 and the fractions lie in (0, 1].
C10_WithinTrace ==
    Drawn =>
        /\ Forward
        /\ \A y \in frame.col.flooring : FloorFraction(y) <= S
        /\ \A y \in frame.col.ceiled : CeilingFraction(y) <= S
\* C10: the denominators are not 0, the fractions are above 0, those of the
\* ceiling pass are at most 1, and those of the floor pass exceed 1 by the
\* rounding of yres - size at most: (fraction - 1) * size <= 2 * Ulp.
C10_WithinRounding ==
    Drawn =>
        /\ Forward
        /\ \A y \in frame.col.flooring :
              FMul(FloorFraction(y) - S, frame.col.wall.size) <= 2 * Ulp
        /\ \A y \in frame.col.ceiled : CeilingFraction(y) <= S
\* a column whose floor pass has a fraction above 1
C10_Witness ==
    /\ Drawn
    /\ frame.col.ceiled # {}
    /\ \E y \in frame.col.flooring : FloorFraction(y) > S
====
